---- MODULE Spec2Model ----
(***************************************************************************)
(* The Flashcard component of src/src/app/layout.tsx: the session state    *)
(* machine (setup -> playing -> finished), its timer effect and its click, *)
(* touch and keyboard handlers.  Every handler runs to completion, React   *)
(* commits the batched state updates and flushes the effects of a discrete *)
(* event before the next event is dispatched, so one handler is one step.  *)
(*                                                                         *)
(* A Word is identified by its number.  The catalog size, the chunk size   *)
(* (300 in the source) and the two set sizes (50 and 100 in the source)    *)
(* are scaled down so that decks can be enumerated; the scaled values keep *)
(* the three cases set size < range, set size = range, set size > range.   *)
(***************************************************************************)
EXTENDS Integers, Sequences, FiniteSets, TLC

CatalogSize == 3

ChunkSize == 2

SetSizeSmall == 2

SetSizeLarge == 3

MaxTimer == 2

MaxSeconds == 6000

threshold == 50

SetSize == {SetSizeSmall, SetSizeLarge}

GameState == {"setup", "playing", "finished"}

\* clientX values of a touch: 0 -> 40 stays within the threshold, the others exceed it
TouchXs == {0, 40, 100}

Keys == {" ", "ArrowRight", "ArrowLeft", "Enter"}

\* selectedSet = null
Null == [start |-> 0, end |-> 0]

Min(a, b) == IF a < b THEN a ELSE b

Abs(x) == IF x < 0 THEN -x ELSE x

(***************************************************************************)
(* '@/data/words': the catalog and its three operations.                   *)
(***************************************************************************)
words == [i \in 1..CatalogSize |-> i]

getWordSets(size) ==
  [k \in 1..((Len(words) + size - 1) \div size) |->
     [start |-> (k - 1) * size + 1, end |-> Min(k * size, Len(words))]]

getWordsInRange(start, end) ==
  SelectSeq(words, LAMBDA w : w >= start /\ w <= end)

\* every order shuffleWords can return for ws
shuffleWords(ws) ==
  {[i \in 1..Len(ws) |-> ws[p[i]]] : p \in Permutations(1..Len(ws))}

rangeSets == getWordSets(ChunkSize)

fullRange == [start |-> 1, end |-> Len(words)]

NoTrip == [kind |-> "none", cursor |-> 0, word |-> 0]

VARIABLES
  gameState, setSize, selectedSet, currentWords, currentIndex, isFlipped,
  timer, isTimerRunning,
  touchStartX, touchEndX,
  touching,      \* a touch on the card has started and not ended
  moved,         \* the last touch started on the card has had a touchmove
  interval,      \* number of live setInterval timers
  display,       \* the characters of the rendered {formatTime(timer)}, <<>> on setup
  ev,            \* the handler that ran last
  call,          \* the session function that handler called, or "none"
  wasFlipped,    \* isFlipped as that handler found it
  nexts,         \* nextCard calls since the deck was dealt, -1 once another event came
  trip           \* "next": nextCard just moved the cursor; "back": prevCard followed it

session ==
  <<gameState, setSize, selectedSet, currentWords, currentIndex, isFlipped,
    timer, isTimerRunning>>

refs == <<touchStartX, touchEndX, moved>>

vars ==
  <<gameState, setSize, selectedSet, currentWords, currentIndex, isFlipped,
    timer, isTimerRunning, touchStartX, touchEndX, touching, moved, interval,
    display, ev, call,
    wasFlipped, nexts, trip>>

TypeOK ==
  /\ gameState \in GameState
  /\ setSize \in SetSize
  /\ selectedSet \in {Null, fullRange} \cup {rangeSets[k] : k \in DOMAIN rangeSets}
  /\ currentWords \in Seq(1..CatalogSize)
  /\ currentIndex \in 0..CatalogSize
  /\ isFlipped \in BOOLEAN
  /\ timer \in 0..MaxTimer
  /\ isTimerRunning \in BOOLEAN
  /\ touchStartX \in TouchXs
  /\ touchEndX \in TouchXs
  /\ touching \in BOOLEAN
  /\ moved \in BOOLEAN
  /\ interval \in 0..1

Init ==
  /\ gameState = "setup"
  /\ setSize = SetSizeLarge
  /\ selectedSet = Null
  /\ currentWords = <<>>
  /\ currentIndex = 0
  /\ isFlipped = FALSE
  /\ timer = 0
  /\ isTimerRunning = FALSE
  /\ touchStartX = 0
  /\ touchEndX = 0
  /\ touching = FALSE
  /\ moved = FALSE
  /\ interval = 0
  /\ display = <<>>
  /\ ev = "init"
  /\ call = "none"
  /\ wasFlipped = FALSE
  /\ nexts = -1
  /\ trip = NoTrip

(***************************************************************************)
(* formatTime, on strings as sequences of characters.                      *)
(***************************************************************************)
Digits == <<"0", "1", "2", "3", "4", "5", "6", "7", "8", "9">>

\* Number.prototype.toString of a non-negative integer
RECURSIVE toString(_)
toString(n) ==
  IF n < 10 THEN <<Digits[n + 1]>>
            ELSE toString(n \div 10) \o <<Digits[(n % 10) + 1]>>

\* String.prototype.padStart with a one-character fill
RECURSIVE padStart(_, _, _)
padStart(str, targetLength, fill) ==
  IF Len(str) >= targetLength THEN str
                              ELSE padStart(<<fill>> \o str, targetLength, fill)

\* formatTime wrapping the minutes at the hour
formatTime_WrapMinutes(seconds) ==
  LET mins == (seconds \div 60) % 60
      secs == seconds % 60
  IN  padStart(toString(mins), 2, "0") \o <<":">> \o padStart(toString(secs), 2, "0")

formatTime(seconds) ==
  LET mins == seconds \div 60
      secs == seconds % 60
  IN  padStart(toString(mins), 2, "0") \o <<":">> \o padStart(toString(secs), 2, "0")

(***************************************************************************)
(* The commit that follows a handler.  The timer effect depends on         *)
(* isTimerRunning only: when it changed, the cleanup of the previous run   *)
(* clears that run's interval and the effect sets a new one if the timer   *)
(* runs.  The card element, and a touch in progress on it, exist on the    *)
(* playing screen only.                                                    *)
(***************************************************************************)
\* the effect without 'return () => clearInterval(interval)'
TimerEffect_NoCleanup ==
  interval' = IF isTimerRunning' # isTimerRunning
                THEN interval + (IF isTimerRunning' THEN 1 ELSE 0)
                ELSE interval

\* the effect never calling setInterval
TimerEffect_NoInterval ==
  interval' = 0

TimerEffect ==
  interval' = IF isTimerRunning' # isTimerRunning
                THEN interval - (IF isTimerRunning THEN 1 ELSE 0)
                              + (IF isTimerRunning' THEN 1 ELSE 0)
                ELSE interval

Commit(touch) ==
  /\ TimerEffect
  /\ display' = IF gameState' = "setup" THEN <<>> ELSE formatTime(timer')
  /\ touching' = (touch /\ gameState' = "playing")

\* history of the dispatched event
Dispatch(e) ==
  /\ ev' = e
  /\ wasFlipped' = isFlipped
  /\ nexts' = CASE call' \in {"startGame", "studyAgain"} /\ gameState' = "playing" -> 0
                [] call' = "nextCard" /\ nexts >= 0 -> nexts + 1
                [] OTHER -> -1
  /\ trip' = CASE call' = "nextCard" /\ gameState' = "playing" ->
                    [kind |-> "next", cursor |-> currentIndex,
                     word |-> IF currentIndex + 1 \in DOMAIN currentWords
                                THEN currentWords[currentIndex + 1] ELSE 0]
               [] call' = "prevCard" /\ trip.kind = "next" ->
                    [kind |-> "back", cursor |-> trip.cursor, word |-> trip.word]
               [] OTHER -> NoTrip

(***************************************************************************)
(* The session functions.                                                  *)
(***************************************************************************)
\* startGame without its 'if (!selectedSet) return'
startGame_NoGuard ==
  /\ call' = "startGame"
  /\ LET set == IF selectedSet = Null THEN fullRange ELSE selectedSet
         wordsInRange == getWordsInRange(set.start, set.end)
     IN  \E shuffled \in shuffleWords(wordsInRange) :
           currentWords' = SubSeq(shuffled, 1, Min(setSize, Len(shuffled)))
  /\ currentIndex' = 0
  /\ isFlipped' = FALSE
  /\ timer' = 0
  /\ isTimerRunning' = TRUE
  /\ gameState' = "playing"
  /\ UNCHANGED <<setSize, selectedSet>>

\* startGame without the slice to setSize
startGame_NoSlice ==
  /\ call' = "startGame"
  /\ IF selectedSet = Null
       THEN UNCHANGED session
       ELSE LET wordsInRange == getWordsInRange(selectedSet.start, selectedSet.end)
            IN  /\ currentWords' \in shuffleWords(wordsInRange)
                /\ currentIndex' = 0
                /\ isFlipped' = FALSE
                /\ timer' = 0
                /\ isTimerRunning' = TRUE
                /\ gameState' = "playing"
                /\ UNCHANGED <<setSize, selectedSet>>

startGame ==
  /\ call' = "startGame"
  /\ IF selectedSet = Null
       THEN UNCHANGED session
       ELSE LET wordsInRange == getWordsInRange(selectedSet.start, selectedSet.end)
            IN  /\ \E shuffled \in shuffleWords(wordsInRange) :
                     currentWords' = SubSeq(shuffled, 1, Min(setSize, Len(shuffled)))
                /\ currentIndex' = 0
                /\ isFlipped' = FALSE
                /\ timer' = 0
                /\ isTimerRunning' = TRUE
                /\ gameState' = "playing"
                /\ UNCHANGED <<setSize, selectedSet>>

\* nextCard comparing with length instead of length - 1
nextCard_OffByOne ==
  /\ call' = "nextCard"
  /\ IF currentIndex < Len(currentWords)
       THEN /\ currentIndex' = currentIndex + 1
            /\ isFlipped' = FALSE
            /\ UNCHANGED <<isTimerRunning, gameState>>
       ELSE /\ isTimerRunning' = FALSE
            /\ gameState' = "finished"
            /\ UNCHANGED <<currentIndex, isFlipped>>
  /\ UNCHANGED <<setSize, selectedSet, currentWords, timer>>

\* nextCard finishing one card early
nextCard_FinishEarly ==
  /\ call' = "nextCard"
  /\ IF currentIndex < Len(currentWords) - 2
       THEN /\ currentIndex' = currentIndex + 1
            /\ isFlipped' = FALSE
            /\ UNCHANGED <<isTimerRunning, gameState>>
       ELSE /\ isTimerRunning' = FALSE
            /\ gameState' = "finished"
            /\ UNCHANGED <<currentIndex, isFlipped>>
  /\ UNCHANGED <<setSize, selectedSet, currentWords, timer>>

\* nextCard without setIsTimerRunning(false)
nextCard_KeepTimer ==
  /\ call' = "nextCard"
  /\ IF currentIndex < Len(currentWords) - 1
       THEN /\ currentIndex' = currentIndex + 1
            /\ isFlipped' = FALSE
            /\ UNCHANGED gameState
       ELSE /\ gameState' = "finished"
            /\ UNCHANGED <<currentIndex, isFlipped>>
  /\ UNCHANGED <<setSize, selectedSet, currentWords, timer, isTimerRunning>>

\* nextCard rewinding the cursor when it finishes
nextCard_RewindOnFinish ==
  /\ call' = "nextCard"
  /\ IF currentIndex < Len(currentWords) - 1
       THEN /\ currentIndex' = currentIndex + 1
            /\ isFlipped' = FALSE
            /\ UNCHANGED <<isTimerRunning, gameState>>
       ELSE /\ isTimerRunning' = FALSE
            /\ gameState' = "finished"
            /\ currentIndex' = 0
            /\ UNCHANGED isFlipped
  /\ UNCHANGED <<setSize, selectedSet, currentWords, timer>>

nextCard ==
  /\ call' = "nextCard"
  /\ IF currentIndex < Len(currentWords) - 1
       THEN /\ currentIndex' = currentIndex + 1
            /\ isFlipped' = FALSE
            /\ UNCHANGED <<isTimerRunning, gameState>>
       ELSE /\ isTimerRunning' = FALSE
            /\ gameState' = "finished"
            /\ UNCHANGED <<currentIndex, isFlipped>>
  /\ UNCHANGED <<setSize, selectedSet, currentWords, timer>>

\* prevCard going back to the first card
prevCard_ToFirst ==
  /\ call' = "prevCard"
  /\ IF currentIndex > 0
       THEN /\ currentIndex' = 0
            /\ isFlipped' = FALSE
       ELSE UNCHANGED <<currentIndex, isFlipped>>
  /\ UNCHANGED <<gameState, setSize, selectedSet, currentWords, timer, isTimerRunning>>

\* prevCard with setIsFlipped(false) outside the 'if'
prevCard_AlwaysUnflip ==
  /\ call' = "prevCard"
  /\ IF currentIndex > 0
       THEN currentIndex' = currentIndex - 1
       ELSE UNCHANGED currentIndex
  /\ isFlipped' = FALSE
  /\ UNCHANGED <<gameState, setSize, selectedSet, currentWords, timer, isTimerRunning>>

prevCard ==
  /\ call' = "prevCard"
  /\ IF currentIndex > 0
       THEN /\ currentIndex' = currentIndex - 1
            /\ isFlipped' = FALSE
       ELSE UNCHANGED <<currentIndex, isFlipped>>
  /\ UNCHANGED <<gameState, setSize, selectedSet, currentWords, timer, isTimerRunning>>

\* flipCard showing the back instead of toggling
flipCard_SetTrue ==
  /\ call' = "flipCard"
  /\ isFlipped' = TRUE
  /\ UNCHANGED <<gameState, setSize, selectedSet, currentWords, currentIndex,
                 timer, isTimerRunning>>

flipCard ==
  /\ call' = "flipCard"
  /\ isFlipped' = ~isFlipped
  /\ UNCHANGED <<gameState, setSize, selectedSet, currentWords, currentIndex,
                 timer, isTimerRunning>>

\* resetGame without setIsTimerRunning(false)
resetGame_KeepTimer ==
  /\ call' = "resetGame"
  /\ gameState' = "setup"
  /\ timer' = 0
  /\ currentIndex' = 0
  /\ isFlipped' = FALSE
  /\ UNCHANGED <<setSize, selectedSet, currentWords, isTimerRunning>>

\* resetGame with setSelectedSet(null) added
resetGame_ClearRange ==
  /\ call' = "resetGame"
  /\ gameState' = "setup"
  /\ timer' = 0
  /\ isTimerRunning' = FALSE
  /\ currentIndex' = 0
  /\ isFlipped' = FALSE
  /\ selectedSet' = Null
  /\ UNCHANGED <<setSize, currentWords>>

resetGame ==
  /\ call' = "resetGame"
  /\ gameState' = "setup"
  /\ timer' = 0
  /\ isTimerRunning' = FALSE
  /\ currentIndex' = 0
  /\ isFlipped' = FALSE
  /\ UNCHANGED <<setSize, selectedSet, currentWords>>

\* studyAgain without setIsFlipped(false)
studyAgain_KeepFlip ==
  /\ call' = "studyAgain"
  /\ currentIndex' = 0
  /\ timer' = 0
  /\ isTimerRunning' = TRUE
  /\ currentWords' \in shuffleWords(currentWords)
  /\ gameState' = "playing"
  /\ UNCHANGED <<setSize, selectedSet, isFlipped>>

\* studyAgain drawing a new deck from the selected range, as startGame does
studyAgain_Resample ==
  /\ call' = "studyAgain"
  /\ currentIndex' = 0
  /\ isFlipped' = FALSE
  /\ timer' = 0
  /\ isTimerRunning' = TRUE
  /\ \E shuffled \in shuffleWords(getWordsInRange(selectedSet.start, selectedSet.end)) :
       currentWords' = SubSeq(shuffled, 1, Min(setSize, Len(shuffled)))
  /\ gameState' = "playing"
  /\ UNCHANGED <<setSize, selectedSet>>

studyAgain ==
  /\ call' = "studyAgain"
  /\ currentIndex' = 0
  /\ isFlipped' = FALSE
  /\ timer' = 0
  /\ isTimerRunning' = TRUE
  /\ currentWords' \in shuffleWords(currentWords)
  /\ gameState' = "playing"
  /\ UNCHANGED <<setSize, selectedSet>>

(***************************************************************************)
(* The handlers, each enabled on the screen that renders its element.      *)
(***************************************************************************)
ClickSetSize(n) ==
  /\ gameState = "setup"
  /\ setSize' = n
  /\ UNCHANGED <<gameState, selectedSet, currentWords, currentIndex, isFlipped,
                 timer, isTimerRunning>>
  /\ call' = "none" /\ Dispatch("setSetSize")
  /\ UNCHANGED refs
  /\ Commit(FALSE)

ClickFullRange ==
  /\ gameState = "setup"
  /\ selectedSet' = fullRange
  /\ UNCHANGED <<gameState, setSize, currentWords, currentIndex, isFlipped,
                 timer, isTimerRunning>>
  /\ call' = "none" /\ Dispatch("setSelectedSet")
  /\ UNCHANGED refs
  /\ Commit(FALSE)

ClickRangeSet(k) ==
  /\ gameState = "setup"
  /\ selectedSet' = rangeSets[k]
  /\ UNCHANGED <<gameState, setSize, currentWords, currentIndex, isFlipped,
                 timer, isTimerRunning>>
  /\ call' = "none" /\ Dispatch("setSelectedSet")
  /\ UNCHANGED refs
  /\ Commit(FALSE)

\* onClick={startGame}; the function's own guard covers selectedSet = null
ClickStart ==
  /\ gameState = "setup"
  /\ startGame
  /\ Dispatch("clickStart")
  /\ UNCHANGED refs
  /\ Commit(FALSE)

ClickNext ==
  /\ gameState = "playing"
  /\ nextCard
  /\ Dispatch("clickNext")
  /\ UNCHANGED refs
  /\ Commit(touching)

\* disabled={currentIndex === 0}
ClickPrev ==
  /\ gameState = "playing"
  /\ currentIndex # 0
  /\ prevCard
  /\ Dispatch("clickPrev")
  /\ UNCHANGED refs
  /\ Commit(touching)

ClickCard ==
  /\ gameState = "playing"
  /\ flipCard
  /\ Dispatch("clickCard")
  /\ UNCHANGED refs
  /\ Commit(touching)

ClickBack ==
  /\ gameState \in {"playing", "finished"}
  /\ resetGame
  /\ Dispatch("clickBack")
  /\ UNCHANGED refs
  /\ Commit(FALSE)

ClickStudyAgain ==
  /\ gameState = "finished"
  /\ studyAgain
  /\ Dispatch("clickStudyAgain")
  /\ UNCHANGED refs
  /\ Commit(FALSE)

handleTouchStart(x) ==
  /\ gameState = "playing"
  /\ ~touching
  /\ touchStartX' = x
  /\ UNCHANGED touchEndX
  /\ moved' = FALSE
  /\ UNCHANGED session
  /\ call' = "none" /\ Dispatch("touchStart")
  /\ Commit(TRUE)

handleTouchMove(x) ==
  /\ gameState = "playing"
  /\ touching
  /\ touchEndX' = x
  /\ UNCHANGED touchStartX
  /\ moved' = TRUE
  /\ UNCHANGED session
  /\ call' = "none" /\ Dispatch("touchMove")
  /\ Commit(TRUE)

\* handleTouchEnd with the two swipe directions exchanged
handleTouchEnd_Reversed ==
  /\ gameState = "playing"
  /\ touching
  /\ LET diff == touchStartX - touchEndX
     IN  IF Abs(diff) > threshold
           THEN IF diff > 0 THEN prevCard ELSE nextCard
           ELSE call' = "none" /\ UNCHANGED session
  /\ Dispatch("touchEnd")
  /\ UNCHANGED refs
  /\ Commit(FALSE)

handleTouchEnd ==
  /\ gameState = "playing"
  /\ touching
  /\ LET diff == touchStartX - touchEndX
     IN  IF Abs(diff) > threshold
           THEN IF diff > 0 THEN nextCard ELSE prevCard
           ELSE call' = "none" /\ UNCHANGED session
  /\ Dispatch("touchEnd")
  /\ UNCHANGED refs
  /\ Commit(FALSE)

\* handleKeyDown without 'if (gameState !== 'playing') return'
handleKeyDown_NoGuard(key) ==
  /\ CASE key = " " -> flipCard
       [] key = "ArrowRight" -> nextCard
       [] key = "ArrowLeft" -> prevCard
       [] OTHER -> call' = "none" /\ UNCHANGED session
  /\ Dispatch(key)
  /\ UNCHANGED refs
  /\ Commit(touching)

handleKeyDown(key) ==
  /\ IF gameState # "playing"
       THEN call' = "none" /\ UNCHANGED session
       ELSE CASE key = " " -> flipCard
              [] key = "ArrowRight" -> nextCard
              [] key = "ArrowLeft" -> prevCard
              [] OTHER -> call' = "none" /\ UNCHANGED session
  /\ Dispatch(key)
  /\ UNCHANGED refs
  /\ Commit(touching)

\* the interval callback also turning the card to its front
Tick_Unflip ==
  /\ interval > 0
  /\ timer < MaxTimer
  /\ timer' = timer + 1
  /\ isFlipped' = FALSE
  /\ UNCHANGED <<gameState, setSize, selectedSet, currentWords, currentIndex,
                 isTimerRunning>>
  /\ call' = "none" /\ Dispatch("tick")
  /\ UNCHANGED refs
  /\ Commit(touching)

\* the interval callback, while the count is below max
TickTo(max) ==
  /\ interval > 0
  /\ timer < max
  /\ timer' = timer + 1
  /\ UNCHANGED <<gameState, setSize, selectedSet, currentWords, currentIndex,
                 isFlipped, isTimerRunning>>
  /\ call' = "none" /\ Dispatch("tick")
  /\ UNCHANGED refs
  /\ Commit(touching)

\* MaxTimer bounds the count
Tick == TickTo(MaxTimer)

Next ==
  \/ \E n \in SetSize : ClickSetSize(n)
  \/ ClickFullRange
  \/ \E k \in DOMAIN rangeSets : ClickRangeSet(k)
  \/ ClickStart
  \/ ClickNext
  \/ ClickPrev
  \/ ClickCard
  \/ ClickBack
  \/ ClickStudyAgain
  \/ \E x \in TouchXs : handleTouchStart(x)
  \/ \E x \in TouchXs : handleTouchMove(x)
  \/ handleTouchEnd
  \/ \E key \in Keys : handleKeyDown(key)
  \/ Tick

Spec == Init /\ [][Next]_vars

\* a session driven by mouse and keyboard only (no touch screen)
NextLive ==
  \/ \E n \in SetSize : ClickSetSize(n)
  \/ ClickFullRange
  \/ \E k \in DOMAIN rangeSets : ClickRangeSet(k)
  \/ ClickStart
  \/ ClickNext
  \/ ClickPrev
  \/ ClickCard
  \/ ClickBack
  \/ ClickStudyAgain
  \/ \E key \in Keys : handleKeyDown(key)
  \/ Tick

\* a live interval keeps firing: its callback is not postponed forever
SpecLive == Init /\ [][NextLive]_vars /\ WF_vars(Tick)

(***************************************************************************)
(* formatTime over a long session: a session just started on the full      *)
(* range, and only the interval callback running, up to MaxSeconds.        *)
(***************************************************************************)
InitFormat ==
  /\ gameState = "playing"
  /\ setSize = SetSizeLarge
  /\ selectedSet = fullRange
  /\ currentWords = SubSeq(words, 1, Min(SetSizeLarge, Len(words)))
  /\ currentIndex = 0
  /\ isFlipped = FALSE
  /\ timer = 0
  /\ isTimerRunning = TRUE
  /\ touchStartX = 0
  /\ touchEndX = 0
  /\ touching = FALSE
  /\ moved = FALSE
  /\ interval = 1
  /\ display = formatTime(0)
  /\ ev = "clickStart"
  /\ call = "startGame"
  /\ wasFlipped = FALSE
  /\ nexts = 0
  /\ trip = NoTrip

FormatTick == TickTo(MaxSeconds)

NextFormat == FormatTick

SpecFormat == InitFormat /\ [][NextFormat]_vars

(***************************************************************************)
(* Properties of the session state machine.                                *)
(***************************************************************************)
\* number of occurrences of w in the sequence ws
Count(ws, w) == Cardinality({i \in DOMAIN ws : ws[i] = w})

\* the words getWordsInRange returns for the selected range
WordsOfSelectedSet == getWordsInRange(selectedSet.start, selectedSet.end)

\* C1: whenever the session is playing, the cursor is an index of the deck:
\* 0 <= currentIndex < length(currentWords).
C1_CursorInDeck ==
  gameState = "playing" =>
    (0 <= currentIndex /\ currentIndex < Len(currentWords))

\* nextCard has moved the cursor onto the last card of a deck of several cards
C1_Witness ==
  /\ gameState = "playing"
  /\ call = "nextCard"
  /\ currentIndex > 0
  /\ currentIndex = Len(currentWords) - 1

\* C2: in every reachable state the timer runs if and only if the session is
\* playing.
C2_TimerIffPlaying ==
  isTimerRunning <=> (gameState = "playing")

\* resetGame has left the playing screen after the timer had counted
C2_Witness ==
  /\ call = "resetGame"
  /\ gameState = "setup"
  /\ ~isTimerRunning
  /\ currentWords # <<>>

C4_StartGuarded ==
  /\ [](gameState \in {"playing", "finished"} => selectedSet # Null)
  /\ [][(call' = "startGame" /\ selectedSet = Null) =>
          (UNCHANGED session /\ gameState' = "setup")]_vars

\* startGame has run with no range selected
C4_Witness ==
  /\ ev = "clickStart"
  /\ call = "startGame"
  /\ selectedSet = Null
  /\ gameState = "setup"

\* C5: nextCard on the last card stops the timer and finishes, for either
\* value of isFlipped, leaving cursor, deck and elapsed time unchanged; below
\* the last card it increments the cursor by exactly 1 and stays playing.
C5_NextCard ==
  [][call' = "nextCard" =>
       /\ gameState = "playing"
       /\ (currentIndex = Len(currentWords) - 1 =>
             /\ isTimerRunning' = FALSE
             /\ gameState' = "finished"
             /\ UNCHANGED <<currentIndex, currentWords, timer>>)
       /\ (currentIndex < Len(currentWords) - 1 =>
             /\ currentIndex' = currentIndex + 1
             /\ gameState' = "playing")]_vars

\* nextCard has finished a session of several cards from a flipped last card,
\* after the timer had counted
C5_Witness ==
  /\ call = "nextCard"
  /\ gameState = "finished"
  /\ wasFlipped
  /\ currentIndex > 0
  /\ timer > 0

\* C6: prevCard at cursor 0 changes no session variable; a flipped card stays
\* flipped.
C6_PrevAtZero ==
  [][(call' = "prevCard" /\ currentIndex = 0) => UNCHANGED session]_vars

\* prevCard has run on a flipped first card
C6_Witness ==
  /\ call = "prevCard"
  /\ gameState = "playing"
  /\ currentIndex = 0
  /\ wasFlipped
  /\ isFlipped

\* C7: every step that changes the cursor or enters playing (nextCard below
\* the last card, prevCard above cursor 0, startGame, studyAgain) ends with
\* the card unflipped.
C7_UnflipOnMove ==
  [][(\/ currentIndex' # currentIndex
      \/ (gameState # "playing" /\ gameState' = "playing")
      \/ (call' = "nextCard" /\ currentIndex < Len(currentWords) - 1)
      \/ (call' = "prevCard" /\ currentIndex > 0)
      \/ (call' = "startGame" /\ selectedSet # Null)
      \/ call' = "studyAgain")
     => isFlipped' = FALSE]_vars

\* studyAgain has re-entered playing from a finished session whose last card
\* was flipped
C7_Witness ==
  /\ call = "studyAgain"
  /\ gameState = "playing"
  /\ wasFlipped
  /\ ~isFlipped

\* C8: flipCard toggles isFlipped and changes no other session variable, and
\* a second consecutive flipCard restores the value the first one found.
C8_FlipOnly ==
  [][call' = "flipCard" =>
       /\ isFlipped' = ~isFlipped
       /\ UNCHANGED <<gameState, currentIndex, currentWords, timer,
                      isTimerRunning, setSize, selectedSet>>
       /\ (call = "flipCard" => isFlipped' = wasFlipped)]_vars

\* flipCard has turned a card other than the first from front to back
C8_Witness ==
  /\ call = "flipCard"
  /\ gameState = "playing"
  /\ currentIndex > 0
  /\ ~wasFlipped
  /\ isFlipped

\* C9: while a deck is in play (playing or finished) its length is
\* min(setSize, number of words in the selected range) and its entries are
\* distinct words of that range.
C9_DeckOfRange ==
  gameState \in {"playing", "finished"} =>
    /\ Len(currentWords) = Min(setSize, Len(WordsOfSelectedSet))
    /\ \A i \in DOMAIN currentWords :
         /\ Count(WordsOfSelectedSet, currentWords[i]) = 1
         /\ Count(currentWords, currentWords[i]) = 1

\* startGame has cut a deck of setSize words out of a larger range
C9_Witness ==
  /\ call = "startGame"
  /\ gameState = "playing"
  /\ Len(currentWords) = setSize
  /\ setSize < Len(WordsOfSelectedSet)

\* C10: studyAgain, taken in finished, enters playing with cursor 0, the card
\* unflipped, elapsed time 0 and the timer running, and with a deck that is a
\* permutation of the finished deck (same length, same multiset of words).
C10_StudyAgain ==
  [][call' = "studyAgain" =>
       /\ gameState = "finished"
       /\ gameState' = "playing"
       /\ currentIndex' = 0
       /\ isFlipped' = FALSE
       /\ timer' = 0
       /\ isTimerRunning' = TRUE
       /\ Len(currentWords') = Len(currentWords)
       /\ \A w \in 1..CatalogSize :
            Count(currentWords', w) = Count(currentWords, w)]_vars

\* studyAgain has restarted a deck that is smaller than its range
C10_Witness ==
  /\ call = "studyAgain"
  /\ gameState = "playing"
  /\ currentIndex = 0
  /\ Len(currentWords) < Len(WordsOfSelectedSet)

\* C11 as stated: once the timer is stopped, elapsed time does not change
\* until the next startGame or studyAgain.
C11_FrozenUntilRestart ==
  [][(~isTimerRunning /\ call' \notin {"startGame", "studyAgain"}) =>
       timer' = timer]_vars

\* C11 as the code has it: while the timer is stopped no tick is delivered
\* and no interval is live; elapsed time changes only by startGame or
\* studyAgain, or by resetGame, which sets it to 0; a step into or within
\* finished never changes it, so finished shows the value at finishing.
C11_NoTickWhenStopped ==
  /\ [](~isTimerRunning => interval = 0)
  /\ [][~isTimerRunning =>
          /\ ev' # "tick"
          /\ (call' \notin {"startGame", "studyAgain", "resetGame"} => timer' = timer)
          /\ (call' = "resetGame" => timer' = 0)]_vars
  /\ [][gameState' = "finished" => timer' = timer]_vars

\* a key was pressed on the finished screen, which still shows the time
\* counted before finishing
C11_Witness ==
  /\ gameState = "finished"
  /\ ~isTimerRunning
  /\ timer > 0
  /\ ev \notin {"clickNext", "touchEnd", "tick"}
  /\ call = "none"

\* C15: at most one interval is live at any moment, and one is live exactly
\* while the session is playing: every exit from playing clears the interval
\* set on entry.
C15_OneInterval ==
  /\ interval \in {0, 1}
  /\ (interval = 1) <=> (gameState = "playing")

\* studyAgain has set an interval after an earlier one was set and cleared
C15_Witness ==
  /\ call = "studyAgain"
  /\ gameState = "playing"
  /\ interval = 1

\* C12 as stated: a drag beyond the threshold from left to right (end x
\* greater than start x) calls nextCard, from right to left calls prevCard.
C12_RightwardIsNext ==
  [][(ev' = "touchEnd" /\ moved /\ Abs(touchStartX - touchEndX) > threshold) =>
       /\ (touchEndX > touchStartX => call' = "nextCard")
       /\ (touchEndX < touchStartX => call' = "prevCard")]_vars

\* C12 as the code has it: a drag beyond the threshold from right to left
\* (end x less than start x, "swipe left") calls nextCard, from left to right
\* (end x greater than start x, "swipe right") calls prevCard.
C12_LeftwardIsNext ==
  [][(ev' = "touchEnd" /\ moved /\ Abs(touchStartX - touchEndX) > threshold) =>
       /\ (touchEndX < touchStartX => call' = "nextCard")
       /\ (touchEndX > touchStartX => call' = "prevCard")]_vars

\* a drag from right to left beyond the threshold has ended and called nextCard
C12_Witness ==
  /\ ev = "touchEnd"
  /\ moved
  /\ touchEndX < touchStartX
  /\ touchStartX - touchEndX > threshold
  /\ call = "nextCard"

\* C13: a touch that ends without having moved beyond the threshold (or
\* without any touchmove) calls neither nextCard nor prevCard and changes
\* neither cursor nor state.
C13_TapKeepsCursor ==
  [][(ev' = "touchEnd" /\ (~moved \/ Abs(touchStartX - touchEndX) <= threshold)) =>
       /\ call' = "none"
       /\ UNCHANGED <<currentIndex, gameState>>]_vars

\* the number a sequence of digit characters denotes
RECURSIVE Value(_)
Value(str) ==
  IF str = <<>> THEN 0
  ELSE 10 * Value(SubSeq(str, 1, Len(str) - 1))
         + (CHOOSE d \in 0..9 : Digits[d + 1] = str[Len(str)])

IsDigits(str) == \A i \in DOMAIN str : \E d \in 0..9 : Digits[d + 1] = str[i]

\* C14: the displayed time of s seconds is the zero-padded two-digit (or
\* longer, never wrapped or truncated) decimal of s div 60, a colon, and the
\* zero-padded two-digit decimal of s mod 60; 125 gives 02:05 and 6000 gives
\* 100:00.
C14_FormatTime ==
  gameState # "setup" =>
    /\ Cardinality({i \in DOMAIN display : display[i] = ":"}) = 1
    /\ LET colon == CHOOSE i \in DOMAIN display : display[i] = ":"
           mm == SubSeq(display, 1, colon - 1)
           ss == SubSeq(display, colon + 1, Len(display))
       IN  /\ IsDigits(mm) /\ IsDigits(ss)
           /\ Len(ss) = 2
           /\ Value(ss) = timer % 60
           /\ Len(mm) >= 2
           /\ Len(mm) > 2 => mm[1] # "0"
           /\ Value(mm) = timer \div 60
    /\ timer = 125 => display = <<"0", "2", ":", "0", "5">>
    /\ timer = 6000 => display = <<"1", "0", "0", ":", "0", "0">>

\* the display after 6000 ticks, with three digits of minutes
C14_Witness ==
  /\ ev = "tick"
  /\ timer = 6000
  /\ Len(display) = 6

\* C16: after startGame or studyAgain dealt a deck of length L, k consecutive
\* nextCard calls with k < L leave the session playing at cursor k and the
\* L-th finishes it; and finished is entered only by a nextCard call made
\* while playing at cursor L - 1.
C16_FinishedByLastNext ==
  /\ [](nexts >= 0 =>
          IF nexts < Len(currentWords)
            THEN gameState = "playing" /\ currentIndex = nexts
            ELSE nexts = Len(currentWords) /\ gameState = "finished")
  /\ [][(gameState # "finished" /\ gameState' = "finished") =>
          /\ call' = "nextCard"
          /\ gameState = "playing"
          /\ currentIndex = Len(currentWords) - 1]_vars

\* the third consecutive nextCard has finished a deck of three cards
C16_Witness ==
  /\ gameState = "finished"
  /\ Len(currentWords) = 3
  /\ nexts = 3
  /\ ~isTimerRunning

\* C17: under weak fairness of the tick, every playing state with elapsed
\* time n (below the bound MaxTimer) is followed by a state with elapsed time
\* n + 1 or by an exit from playing, and each tick adds exactly 1.
C17_TimerAdvances ==
  /\ \A n \in 0..(MaxTimer - 1) :
       (gameState = "playing" /\ timer = n)
         ~> (timer = n + 1 \/ gameState # "playing")
  /\ [][ev' = "tick" => (gameState = "playing" /\ timer' = timer + 1)]_vars

\* the tick has counted up to the bound in one playing session
C17_Witness ==
  /\ ev = "tick"
  /\ gameState = "playing"
  /\ timer = MaxTimer

\* C18: a key press acts only while playing, where space, ArrowRight and
\* ArrowLeft call flipCard, nextCard and prevCard with their effects and any
\* other key does nothing; on setup and on finished every key press leaves
\* the whole session unchanged.
C18_KeysOnlyWhilePlaying ==
  [][ev' \in Keys =>
       IF gameState # "playing"
         THEN call' = "none" /\ UNCHANGED session
         ELSE /\ ev' = " " =>
                   /\ call' = "flipCard"
                   /\ isFlipped' = ~isFlipped
                   /\ UNCHANGED <<gameState, currentIndex>>
              /\ ev' = "ArrowRight" =>
                   /\ call' = "nextCard"
                   /\ IF currentIndex < Len(currentWords) - 1
                        THEN currentIndex' = currentIndex + 1 /\ gameState' = "playing"
                        ELSE currentIndex' = currentIndex /\ gameState' = "finished"
              /\ ev' = "ArrowLeft" =>
                   /\ call' = "prevCard"
                   /\ currentIndex' = (IF currentIndex > 0 THEN currentIndex - 1 ELSE 0)
                   /\ gameState' = "playing"
              /\ ev' \notin {" ", "ArrowRight", "ArrowLeft"} =>
                   call' = "none" /\ UNCHANGED session
              /\ UNCHANGED <<setSize, selectedSet, currentWords, timer>>]_vars

\* ArrowRight was pressed on the finished screen and did nothing
C18_Witness ==
  /\ ev = "ArrowRight"
  /\ gameState = "finished"
  /\ call = "none"
  /\ timer > 0

\* C19: a tick changes elapsed time only: state, cursor, isFlipped, deck,
\* timer flag, set size and selected range are unchanged by it.
C19_TickFrame ==
  [][ev' = "tick" =>
       /\ timer' # timer
       /\ UNCHANGED <<gameState, currentIndex, isFlipped, currentWords,
                      isTimerRunning, setSize, selectedSet>>]_vars

\* a tick has fired on a flipped card that is not the first
C19_Witness ==
  /\ ev = "tick"
  /\ isFlipped
  /\ wasFlipped
  /\ currentIndex > 0
  /\ timer > 0

\* C20: while a deck is in play, no step but studyAgain changes the deck, its
\* order, the set size or the selected range (nextCard, prevCard, flipCard
\* and the tick leave them untouched); a nextCard made below the last card
\* followed at once by a prevCard returns to the same cursor and the same
\* word, with the card unflipped.
C20_DeckFixedInSession ==
  /\ [][(gameState \in {"playing", "finished"} /\ call' # "studyAgain") =>
          UNCHANGED <<currentWords, setSize, selectedSet>>]_vars
  /\ [][(call' \in {"nextCard", "prevCard", "flipCard"} \/ ev' = "tick") =>
          UNCHANGED <<currentWords, setSize, selectedSet>>]_vars
  /\ [](trip.kind = "back" =>
          /\ gameState = "playing"
          /\ currentIndex = trip.cursor
          /\ currentWords[currentIndex + 1] = trip.word
          /\ isFlipped = FALSE)

\* prevCard has run right after a nextCard that had moved the cursor from 1
\* to 2
C20_Witness ==
  /\ call = "prevCard"
  /\ trip.kind = "back"
  /\ trip.cursor = 1
  /\ Len(currentWords) >= 3

====
